---- MODULE Spec2Model ----
(***************************************************************************)
(* A model of src/data_lake.py: DataLakeStorage (zone store),              *)
(* MetadataCatalog (asset table and lineage table) and DataLakeManager     *)
(* (ingest_data, transform_data).  Callers are threads of the web server,  *)
(* so every manager operation is a sequence of steps that interleave.      *)
(***************************************************************************)
EXTENDS Integers, Sequences, FiniteSets, Bags, TLC

(***************************************************************************)
(* Bounds of the model.                                                    *)
(***************************************************************************)
\* number of public calls issued in one behaviour
MaxCalls == 3

\* callers: threads of the web server; the second one only uploads
Procs == {1, 2}
Uploaders == {2}

(***************************************************************************)
(* Inputs the callers draw from.                                           *)
(***************************************************************************)
Names == {"t1", "t2"}
ZoneNames == {"raw", "bronze", "silver", "gold"}
D1 == [dtypes |-> <<<<"id", "int64">>>>, rows |-> 1]
D2 == [dtypes |-> <<<<"id", "int64">>, <<"name", "object">>>>, rows |-> 2]
\* a named function, and a callable object without __name__
identity == [has_name |-> TRUE, name |-> "identity", body |-> "identity"]
select_first == [has_name |-> FALSE, name |-> "", body |-> "select_first"]
\* arguments of ingest_data; tag order and duplicates matter; "tmp" is no zone
IngestArgs ==
    {[data |-> D1, name |-> "t1", zone |-> "raw", tags |-> <<"b", "a", "a">>],
     [data |-> D2, name |-> "t1", zone |-> "raw", tags |-> <<>>],
     [data |-> D1, name |-> "t2", zone |-> "tmp", tags |-> <<>>]}
Owners == {"data_team"}
Descriptions == {<<"sample">>}
\* arguments of transform_data besides the source id; the target name "raw_x"
\* has the name of a zone in it
TransformArgs ==
    {[fn |-> identity, name |-> "t1", zone |-> "silver"],
     [fn |-> select_first, name |-> "raw_x", zone |-> "silver"],
     [fn |-> identity, name |-> "t2", zone |-> "tmp"]}
\* arguments of store_data called on its own; "xml" is no format
StoreArgs ==
    {[data |-> D1, zone |-> "tmp", name |-> "t1", format |-> "parquet"],
     [data |-> D1, zone |-> "raw", name |-> "t2", format |-> "xml"]}

(***************************************************************************)
(* Time.                                                                   *)
(***************************************************************************)
\* the values datetime.now() returns, in the order the clock passes them: two
\* instants of one second, then the next second
ClockReadings ==
    <<[sec |-> 0, usec |-> 0], [sec |-> 0, usec |-> 1], [sec |-> 1, usec |-> 0]>>
FirstReading == CHOOSE t \in DOMAIN ClockReadings : t - 1 \notin DOMAIN ClockReadings
\* datetime value of reading number t
DT(t) == ClockReadings[t]
\* datetime.strftime("%Y%m%d_%H%M%S"): second resolution
strftime(dt) == dt.sec
\* str(datetime): the fraction is printed only when it is not zero
str_datetime(dt) == IF dt.usec = 0 THEN <<dt.sec>> ELSE <<dt.sec, dt.usec>>
\* isoformat that always leaves the fraction out
isoformat_NoMicro(dt) == <<dt.sec>>
\* datetime.isoformat(): same rule
isoformat(dt) == IF dt.usec = 0 THEN <<dt.sec>> ELSE <<dt.sec, dt.usec>>
\* datetime.fromisoformat()
fromisoformat(s) == [sec |-> s[1], usec |-> IF Len(s) >= 2 THEN s[2] ELSE 0]

(***************************************************************************)
(* Strings as their characters, where the code looks inside them.          *)
(***************************************************************************)
Chars(s) ==
    CASE s = "data_lake" -> <<"d", "a", "t", "a", "_", "l", "a", "k", "e">>
      [] s = "raw"       -> <<"r", "a", "w">>
      [] s = "bronze"    -> <<"b", "r", "o", "n", "z", "e">>
      [] s = "silver"    -> <<"s", "i", "l", "v", "e", "r">>
      [] s = "gold"      -> <<"g", "o", "l", "d">>
      [] s = "t1"        -> <<"t", "1">>
      [] s = "t2"        -> <<"t", "2">>
      [] s = "raw_x"     -> <<"r", "a", "w", "_", "x">>
      [] s = "parquet"   -> <<"p", "a", "r", "q", "u", "e", "t">>
      [] s = "csv"       -> <<"c", "s", "v">>
      [] s = "json"      -> <<"j", "s", "o", "n">>
\* the digits strftime prints for a timestamp: date, "_", time of day
strftime_chars(timestamp) ==
    <<"0", "_", <<"0", "1", "2", "3", "4", "5", "6", "7", "8", "9">>[timestamp + 1]>>
\* sub in s, for two str: s[i:i+len(sub)] == sub at a prefix only
Contains_PrefixOnly(sub, s) ==
    Len(sub) <= Len(s) /\ SubSeq(s, 1, Len(sub)) = sub
\* sub in s, for two str
Contains(sub, s) ==
    \E i \in 1..(Len(s) - Len(sub) + 1) :
        s[i] = sub[1] /\ SubSeq(s, i, i + Len(sub) - 1) = sub

(***************************************************************************)
(* json.dumps / json.loads on a list of strings and on a str->str dict     *)
(* (a dict is kept as its insertion-ordered sequence of items).            *)
(***************************************************************************)
Punct(c) == <<"p", c>>
Quoted(s) == <<"s", s>>
RECURSIVE json_items(_)
json_items(xs) ==
    IF xs = <<>> THEN <<>>
    ELSE IF Len(xs) = 1 THEN <<Quoted(xs[1])>>
    ELSE <<Quoted(xs[1]), Punct(",")>> \o json_items(Tail(xs))
json_dumps_list(xs) == <<Punct("[")>> \o json_items(xs) \o <<Punct("]")>>
json_loads_list(text) ==
    LET inner == SubSeq(text, 2, Len(text) - 1)
    IN  [i \in 1..((Len(inner) + 1) \div 2) |-> inner[2 * i - 1][2]]
RECURSIVE json_pairs(_)
json_pairs(kv) ==
    IF kv = <<>> THEN <<>>
    ELSE LET item == <<Quoted(kv[1][1]), Punct(":"), Quoted(kv[1][2])>>
         IN  IF Len(kv) = 1 THEN item
             ELSE item \o <<Punct(",")>> \o json_pairs(Tail(kv))
json_dumps_dict(kv) == <<Punct("{")>> \o json_pairs(kv) \o <<Punct("}")>>
json_loads_dict(text) ==
    LET inner == SubSeq(text, 2, Len(text) - 1)
    IN  [i \in 1..((Len(inner) + 1) \div 4) |->
            <<inner[4 * i - 3][2], inner[4 * i - 1][2]>>]

(***************************************************************************)
(* hashlib.md5: a digest of its input.                                     *)
(***************************************************************************)
md5(x) == <<"md5", x>>


(***************************************************************************)
(* State.                                                                  *)
(***************************************************************************)
VARIABLES
    now,          \* the latest reading taken of the wall clock
    dirs,         \* directories that exist under base_path
    files,        \* path -> [bytes, st_ctime, st_mtime] of the files that exist
    data_assets,  \* rows of table data_assets
    lineage,      \* rows of table lineage, in insertion order
    lineage_seq,  \* sqlite_sequence of table lineage (AUTOINCREMENT)
    pc,           \* where each caller is
    loc,          \* each caller's local variables
    ret,          \* what the call that ended last returned or raised
    applied,      \* how many times a transformation_func was applied
    ingested,     \* history: bag with one entry per ingest_data that reached line 310
    registered,   \* history: asset_id -> the DataAsset last registered with success
    ncalls        \* public calls issued so far

vars == <<now, dirs, files, data_assets, lineage, lineage_seq, pc, loc, ret,
          applied, ingested, registered, ncalls>>

(***************************************************************************)
(* DataLakeStorage.                                                        *)
(***************************************************************************)
base_path == "data_lake"
\* no path (None)
NoPath == <<>>
zones == [z \in ZoneNames |-> <<base_path, z>>]
SupportedFormats == {"parquet", "csv", "json"}

\* DataFrame.to_parquet / to_csv / to_json: the bytes written for a table
Encode(data, format) == [format |-> format, payload |-> data]
\* pd.read_parquet / read_csv / read_json
Decode(bytes) == bytes.payload
\* st_size of the bytes
SizeOf(bytes) == 1 + bytes.payload.rows * Len(bytes.payload.dtypes)

\* the file name without its timestamp
FilePath_NoStamp(zone, dataset_name, timestamp, format) ==
    <<base_path, zone, dataset_name, <<dataset_name, 0, format>>>>
\* f"{dataset_name}_{timestamp}.{format}" under the dataset directory
FilePath(zone, dataset_name, timestamp, format) ==
    <<base_path, zone, dataset_name, <<dataset_name, timestamp, format>>>>
\* str(file_path), the path as store_data returns it
str_path(file_path) ==
    Chars(file_path[1]) \o <<"/">> \o Chars(file_path[2]) \o <<"/">>
        \o Chars(file_path[3]) \o <<"/">> \o Chars(file_path[4][1]) \o <<"_">>
        \o strftime_chars(file_path[4][2]) \o <<".">> \o Chars(file_path[4][3])
\* Path(file_path).suffix, without the dot
Suffix(file_path) == file_path[4][3]

WriteFile(fs, path, bytes, t) ==
    [x \in (DOMAIN fs) \cup {path} |->
        IF x = path THEN [bytes |-> bytes, st_ctime |-> t, st_mtime |-> t]
        ELSE fs[x]]

\* store_data without the zone check, the zone directory taken from the name
store_data_NoZoneCheck(data, zone, dataset_name, format, t) ==
    LET dataset_path == <<base_path, zone, dataset_name>>
        file_path == FilePath(zone, dataset_name, strftime(DT(t)), format)
    IN  [status |-> "ok", file_path |-> file_path,
         dirs |-> dirs \cup {dataset_path},
         files |-> WriteFile(files, file_path, Encode(data, format), t)]
\* store_data when the clock reads t: the outcome, and the directories and
\* files it leaves
store_data(data, zone, dataset_name, format, t) ==
    IF zone \notin DOMAIN zones
    THEN [status |-> "InvalidZone", file_path |-> NoPath, dirs |-> dirs, files |-> files]
    ELSE LET dataset_path == zones[zone] \o <<dataset_name>>
             timestamp == strftime(DT(t))
             file_path == FilePath(zone, dataset_name, timestamp, format)
             made == dirs \cup {dataset_path}
         IN  IF format \in SupportedFormats
             THEN [status |-> "ok", file_path |-> file_path, dirs |-> made,
                   files |-> WriteFile(files, file_path, Encode(data, format), t)]
             ELSE [status |-> "UnsupportedFormat", file_path |-> NoPath,
                   dirs |-> made, files |-> files]

\* load_data: dispatch on the suffix
load_data(file_path) ==
    IF Suffix(file_path) \notin SupportedFormats
    THEN [status |-> "UnsupportedFormat", data |-> D1]
    ELSE IF file_path \notin DOMAIN files
    THEN [status |-> "FileNotFound", data |-> D1]
    ELSE [status |-> "ok", data |-> Decode(files[file_path].bytes)]

\* list_datasets in directory state ds: the names of the subdirectories of the
\* zone's directory, [] for a name that is no zone; iterdir() gives them in
\* no order of its own, so the result is kept as the set of names
list_datasets_in(ds, zone) ==
    IF zone \notin DOMAIN zones THEN {}
    ELSE {d[Len(d)] : d \in {x \in ds : Len(x) = Len(zones[zone]) + 1
                                        /\ SubSeq(x, 1, Len(zones[zone])) = zones[zone]}}
list_datasets(zone) == list_datasets_in(dirs, zone)

_calculate_checksum(file_path) == md5(files[file_path].bytes)

EmptyInfo == [exists |-> FALSE, size_bytes |-> 0, created_at |-> DT(FirstReading),
              modified_at |-> DT(FirstReading), checksum |-> md5(Encode(D1, "parquet"))]
\* get_file_info: {} when the path does not exist
get_file_info(file_path) ==
    IF file_path \notin DOMAIN files THEN EmptyInfo
    ELSE [exists |-> TRUE,
          size_bytes |-> SizeOf(files[file_path].bytes),
          created_at |-> DT(files[file_path].st_ctime),
          modified_at |-> DT(files[file_path].st_mtime),
          checksum |-> _calculate_checksum(file_path)]

(***************************************************************************)
(* MetadataCatalog.                                                        *)
(***************************************************************************)
\* the tuple bound to INSERT OR REPLACE
Row(asset) ==
    [asset_id |-> asset.asset_id, name |-> asset.name, path |-> asset.path,
     format |-> asset.format, size_bytes |-> asset.size_bytes,
     created_at |-> isoformat(asset.created_at),
     updated_at |-> isoformat(asset.updated_at),
     schema |-> json_dumps_dict(asset.schema),
     tags |-> json_dumps_list(asset.tags),
     owner |-> asset.owner, description |-> asset.description,
     checksum |-> asset.checksum]

\* DataAsset(...) built from a row
FromRow(row) ==
    [asset_id |-> row.asset_id, name |-> row.name, path |-> row.path,
     format |-> row.format, size_bytes |-> row.size_bytes,
     created_at |-> fromisoformat(row.created_at),
     updated_at |-> fromisoformat(row.updated_at),
     schema |-> json_loads_dict(row.schema),
     tags |-> json_loads_list(row.tags),
     owner |-> row.owner, description |-> row.description,
     checksum |-> row.checksum]

\* a plain insert into a table without the key
InsertOrReplace_Plain(table, row) == table \cup {row}
\* INSERT OR REPLACE under PRIMARY KEY asset_id
InsertOrReplace(table, row) ==
    {r \in table : r.asset_id # row.asset_id} \cup {row}

\* register_asset: the table it leaves and the boolean it returns; db_ok is
\* whether sqlite carried out the statement and the commit
register_asset(asset, db_ok) ==
    IF db_ok
    THEN [ok |-> TRUE, data_assets |-> InsertOrReplace(data_assets, Row(asset))]
    ELSE [ok |-> FALSE, data_assets |-> data_assets]

\* get_asset: fetchone() of the rows selected; the result is {} for None and
\* {asset} otherwise
SelectById(table, asset_id) == {r \in table : r.asset_id = asset_id}
\* get_asset with the WHERE clause lost: fetchone() of the whole table
get_asset_AnyRow(asset_id) ==
    IF data_assets = {} THEN {} ELSE {FromRow(CHOOSE r \in data_assets : TRUE)}
get_asset(asset_id) ==
    LET rows == SelectById(data_assets, asset_id)
    IN  IF rows = {} THEN {} ELSE {FromRow(CHOOSE r \in rows : TRUE)}

\* search_assets() with no query and no tags: every row of the table, rebuilt
\* as a DataAsset; the order of the rows is the database's
search_assets == {FromRow(row) : row \in data_assets}

\* add_lineage with the two endpoints bound in the wrong order
add_lineage_Swapped(source_id, target_id, transformation) ==
    [lineage |-> Append(lineage,
                    [id |-> lineage_seq + 1, source_asset_id |-> target_id,
                     target_asset_id |-> source_id,
                     transformation |-> transformation]),
     lineage_seq |-> lineage_seq + 1]
\* add_lineage: INSERT INTO lineage with an AUTOINCREMENT id (the created_at
\* column, which nothing reads, is left out)
add_lineage(source_id, target_id, transformation) ==
    [lineage |-> Append(lineage,
                    [id |-> lineage_seq + 1, source_asset_id |-> source_id,
                     target_asset_id |-> target_id,
                     transformation |-> transformation]),
     lineage_seq |-> lineage_seq + 1]


(***************************************************************************)
(* DataLakeManager: callers and their steps.                               *)
(***************************************************************************)
NoId == <<>>
NoLoc == [op |-> "none", data |-> D1, name |-> "", owner |-> "",
          description |-> <<>>, tags |-> <<>>, zone |-> "", file_path |-> NoPath,
          stored_at |-> FirstReading, file_info |-> EmptyInfo, source_asset_id |-> NoId,
          fn |-> identity, target_asset_id |-> NoId]
NoRet == [op |-> "none", status |-> "none", value |-> <<>>]

\* md5(f"{name}_{datetime.now()}") at clock reading t
AssetId(name, t) == md5(<<name, "_", str_datetime(DT(t))>>)
\* ids a caller may pass: every id some ingest could have produced
IdArgs == {AssetId(n, t) : n \in Names, t \in DOMAIN ClockReadings}

\* the transformation functions' effect on a table
Apply(fn, data) ==
    IF fn.body = "identity" THEN data
    ELSE [dtypes |-> <<data.dtypes[1]>>, rows |-> 1]
\* transformation_func.__name__ if it has one, else 'custom_transform'
TransformLabel(fn) == IF fn.has_name THEN fn.name ELSE "custom_transform"

\* an exception leaves the call: the caller is idle again and sees the error
Raise(p, err) ==
    /\ pc' = [pc EXCEPT ![p] = "idle"]
    /\ ret' = [op |-> loc[p].op, status |-> err, value |-> <<>>]
    /\ loc' = [loc EXCEPT ![p] = NoLoc]
Return(p, op, value) ==
    /\ pc' = [pc EXCEPT ![p] = "idle"]
    /\ ret' = [op |-> op, status |-> "ok", value |-> value]
    /\ loc' = [loc EXCEPT ![p] = NoLoc]

Init ==
    /\ now = FirstReading
    /\ dirs = {zones[z] : z \in ZoneNames}
    /\ files = [x \in {} |-> 0]
    /\ data_assets = {}
    /\ lineage = <<>>
    /\ lineage_seq = 0
    /\ pc = [p \in Procs |-> "idle"]
    /\ loc = [p \in Procs |-> NoLoc]
    /\ ret = NoRet
    /\ applied = 0
    /\ ingested = EmptyBag
    /\ registered = [x \in {} |-> 0]
    /\ ncalls = 0

\* datetime.now(): a reading t not before the latest one
Reading(t) == t >= now /\ now' = t

\* ingest_data is called
IngestCall(p, data, name, owner, description, tags, zone) ==
    /\ pc[p] = "idle"
    /\ ncalls < MaxCalls
    /\ ncalls' = ncalls + 1
    /\ pc' = [pc EXCEPT ![p] = "i_store"]
    /\ loc' = [loc EXCEPT ![p] =
                 [NoLoc EXCEPT !.op = "ingest", !.data = data, !.name = name,
                               !.owner = owner, !.description = description,
                               !.tags = tags, !.zone = zone]]
    /\ UNCHANGED <<now, dirs, files, data_assets, lineage, lineage_seq, ret,
                   applied, ingested, registered>>

\* ingest_data line 285: store_data(data, zone, name)
IngestStore(p) ==
    /\ pc[p] = "i_store"
    /\ \E t \in DOMAIN ClockReadings :
       LET r == store_data(loc[p].data, loc[p].zone, loc[p].name, "parquet", t)
       IN  /\ Reading(t)
           /\ dirs' = r.dirs
           /\ files' = r.files
           /\ IF r.status = "ok"
              THEN /\ pc' = [pc EXCEPT ![p] = "i_info"]
                   /\ loc' = [loc EXCEPT ![p].file_path = r.file_path,
                                         ![p].stored_at = t]
                   /\ UNCHANGED ret
              ELSE Raise(p, r.status)
    /\ UNCHANGED <<data_assets, lineage, lineage_seq, applied, ingested,
                   registered, ncalls>>

\* ingest_data line 288: get_file_info(file_path); {} raises KeyError at line 297
IngestInfo(p) ==
    /\ pc[p] = "i_info"
    /\ LET file_info == get_file_info(loc[p].file_path)
       IN  IF file_info.exists
           THEN /\ pc' = [pc EXCEPT ![p] = "i_reg"]
                /\ loc' = [loc EXCEPT ![p].file_info = file_info]
                /\ UNCHANGED ret
           ELSE Raise(p, "KeyError")
    /\ UNCHANGED <<now, dirs, files, data_assets, lineage, lineage_seq, applied,
                   ingested, registered, ncalls>>

\* the DataAsset built at lines 291-305
NewAsset(l, t) ==
    [asset_id |-> AssetId(l.name, t), name |-> l.name, path |-> l.file_path,
     format |-> Suffix(l.file_path), size_bytes |-> l.file_info.size_bytes,
     created_at |-> l.file_info.created_at,
     updated_at |-> l.file_info.modified_at,
     schema |-> l.data.dtypes, tags |-> l.tags, owner |-> l.owner,
     description |-> l.description, checksum |-> l.file_info.checksum]

\* ingest_data lines 291-310: build the asset, register it, return asset_id
IngestRegister(p) ==
    /\ pc[p] = "i_reg"
    /\ \E db_ok \in BOOLEAN, t \in DOMAIN ClockReadings :
         LET asset == NewAsset(loc[p], t)
             r == register_asset(asset, db_ok)
         IN  /\ Reading(t)
             /\ data_assets' = r.data_assets
             /\ registered' =
                   IF r.ok
                   THEN [x \in (DOMAIN registered) \cup {asset.asset_id} |->
                            IF x = asset.asset_id THEN asset ELSE registered[x]]
                   ELSE registered
             /\ ingested' = ingested (+) SetToBag({
                   [asset_id |-> asset.asset_id, name |-> loc[p].name,
                    zone |-> loc[p].zone, path |-> loc[p].file_path,
                    second |-> strftime(DT(loc[p].stored_at)), ok |-> r.ok]})
             /\ IF loc[p].op = "ingest"
                THEN Return(p, "ingest", asset.asset_id)
                ELSE /\ pc' = [pc EXCEPT ![p] = "t_lineage"]
                     /\ loc' = [loc EXCEPT ![p].target_asset_id = asset.asset_id]
                     /\ UNCHANGED ret
    /\ UNCHANGED <<dirs, files, lineage, lineage_seq, applied, ncalls>>

\* transform_data lines 316-334 up to the call of ingest_data
TransformCall(p, source_asset_id, fn, target_name, target_zone) ==
    /\ pc[p] = "idle"
    /\ ncalls < MaxCalls
    /\ ncalls' = ncalls + 1
    /\ LET found == get_asset(source_asset_id)
           NotFound ==
               /\ pc' = pc
               /\ loc' = loc
               /\ ret' = [op |-> "transform", status |-> "AssetNotFound",
                          value |-> <<>>]
               /\ applied' = applied
       IN  IF found = {} THEN NotFound
           ELSE LET source_asset == CHOOSE a \in found : TRUE
                    loaded == load_data(source_asset.path)
                IN  IF loaded.status # "ok"
                    THEN /\ pc' = pc
                         /\ loc' = loc
                         /\ ret' = [op |-> "transform", status |-> loaded.status,
                                    value |-> <<>>]
                         /\ applied' = applied
                    ELSE /\ applied' = applied + 1
                         /\ pc' = [pc EXCEPT ![p] = "i_store"]
                         /\ ret' = ret
                         /\ loc' = [loc EXCEPT ![p] =
                               [NoLoc EXCEPT
                                  !.op = "transform",
                                  !.data = Apply(fn, loaded.data),
                                  !.name = target_name,
                                  !.owner = source_asset.owner,
                                  !.description =
                                      <<"Transformed from ", source_asset.name>>,
                                  !.tags = source_asset.tags \o <<"transformed">>,
                                  !.zone = target_zone,
                                  !.source_asset_id = source_asset_id,
                                  !.fn = fn]]
    /\ UNCHANGED <<now, dirs, files, data_assets, lineage, lineage_seq, ingested,
                   registered>>

\* transform_data lines 337-343: add_lineage, return target_asset_id
TransformLineage(p) ==
    /\ pc[p] = "t_lineage"
    /\ LET r == add_lineage(loc[p].source_asset_id, loc[p].target_asset_id,
                            TransformLabel(loc[p].fn))
       IN  /\ lineage' = r.lineage
           /\ lineage_seq' = r.lineage_seq
           /\ Return(p, "transform", loc[p].target_asset_id)
    /\ UNCHANGED <<now, dirs, files, data_assets, applied, ingested, registered,
                   ncalls>>

\* sum(a.size_bytes for a in zone_assets)
RECURSIVE total_size_bytes(_)
total_size_bytes(assets) ==
    IF assets = {} THEN 0
    ELSE LET a == CHOOSE x \in assets : TRUE
         IN  a.size_bytes + total_size_bytes(assets \ {a})
\* round(total_size / (1024 * 1024), 2), in hundredths of a megabyte (the
\* sizes here are far from a tie of the rounding)
total_size_mb(total_size) == (total_size * 200 + 1024 * 1024) \div (2 * 1024 * 1024)
\* get_zone_summary: for each zone the count of its dataset directories, and
\* count and size of the assets whose path has the zone's name in it
get_zone_summary ==
    [zone_name \in DOMAIN zones |->
        LET datasets == list_datasets(zone_name)
            assets == search_assets
            zone_assets ==
                {a \in assets : Contains(Chars(zone_name), str_path(a.path))}
        IN  [dataset_count |-> Cardinality(datasets),
             asset_count |-> Cardinality(zone_assets),
             total_size_mb |-> total_size_mb(total_size_bytes(zone_assets))]]

\* get_zone_summary is called
ZoneSummaryCall(p) ==
    /\ pc[p] = "idle"
    /\ ncalls < MaxCalls
    /\ ncalls' = ncalls + 1
    /\ ret' = [op |-> "zone_summary", status |-> "ok", value |-> get_zone_summary]
    /\ UNCHANGED <<now, dirs, files, data_assets, lineage, lineage_seq, pc, loc,
                   applied, ingested, registered>>

\* storage.store_data called on its own
StoreCall(p, data, zone, dataset_name, format) ==
    /\ pc[p] = "idle"
    /\ ncalls < MaxCalls
    /\ ncalls' = ncalls + 1
    /\ \E t \in DOMAIN ClockReadings :
       LET r == store_data(data, zone, dataset_name, format, t)
       IN  /\ Reading(t)
           /\ dirs' = r.dirs
           /\ files' = r.files
           /\ ret' = [op |-> "store", status |-> r.status, value |-> r.file_path]
    /\ UNCHANGED <<data_assets, lineage, lineage_seq, pc, loc, applied,
                   ingested, registered>>

\* catalog.get_asset called on its own
GetAssetCall(p, asset_id) ==
    /\ pc[p] = "idle"
    /\ ncalls < MaxCalls
    /\ ncalls' = ncalls + 1
    /\ ret' = [op |-> "get_asset", status |-> "ok", value |-> get_asset(asset_id)]
    /\ UNCHANGED <<now, dirs, files, data_assets, lineage, lineage_seq, pc, loc,
                   applied, ingested, registered>>

Next ==
    \/ \E p \in Procs, a \in IngestArgs, owner \in Owners,
          description \in Descriptions :
          IngestCall(p, a.data, a.name, owner, description, a.tags, a.zone)
    \/ \E p \in Procs : IngestStore(p)
    \/ \E p \in Procs : IngestInfo(p)
    \/ \E p \in Procs : IngestRegister(p)
    \/ \E p \in Procs \ Uploaders, id \in IdArgs, a \in TransformArgs :
          TransformCall(p, id, a.fn, a.name, a.zone)
    \/ \E p \in Procs : TransformLineage(p)
    \/ \E p \in Procs \ Uploaders, a \in StoreArgs :
          StoreCall(p, a.data, a.zone, a.name, a.format)
    \/ \E p \in Procs \ Uploaders, id \in IdArgs : GetAssetCall(p, id)
    \/ \E p \in Procs \ Uploaders : ZoneSummaryCall(p)

Spec == Init /\ [][Next]_vars


(***************************************************************************)
(* Properties.                                                             *)
(***************************************************************************)
\* caller p takes the step that ends ingest_data (lines 291-310)
IngestReturns(p) == pc[p] = "i_reg" /\ pc'[p] # "i_reg"
\* the state both stores hold, and the count of function applications
StoreState == <<dirs, files, data_assets, lineage, lineage_seq, applied>>

\* C1: every lineage edge has a target_asset_id for which a catalog record
\* exists (records are never deleted, so this is the same as the record
\* existing when the edge is appended): a failed load or ingest step of
\* transform adds no edge.
C1_EdgeTargetsRegistered ==
    \A i \in DOMAIN lineage :
        SelectById(data_assets, lineage[i].target_asset_id) # {}

\* C2: a transform_data call whose source id has no catalog record fails with
\* AssetNotFound and changes nothing: no lineage edge, no asset record, no
\* file or directory, no application of the transformation function, and the
\* caller is idle again.
C2_MissingSourceChangesNothing ==
    [][\A p \in Procs, id \in IdArgs, a \in TransformArgs :
          (TransformCall(p, id, a.fn, a.name, a.zone)
             /\ SelectById(data_assets, id) = {})
          => /\ ret' = [op |-> "transform", status |-> "AssetNotFound",
                        value |-> <<>>]
             /\ pc'[p] = "idle"
             /\ UNCHANGED StoreState]_vars
\* a transform has failed on a missing source while the catalog held records
C2_Witness ==
    /\ ret.op = "transform"
    /\ ret.status = "AssetNotFound"
    /\ data_assets # {}


\* the successful entries of the ingest history, and how many there are
OkEntries(b) == {e \in BagToSet(b) : e.ok}
RECURSIVE CountCopies(_, _)
CountCopies(b, es) ==
    IF es = {} THEN 0
    ELSE LET e == CHOOSE x \in es : TRUE
         IN  CopiesIn(e, b) + CountCopies(b, es \ {e})
\* the step registered an asset with success
RegisteredNow == CountCopies(ingested', OkEntries(ingested'))
                     > CountCopies(ingested, OkEntries(ingested))

\* C3: the asset_id returned by an ingest differs from the one returned by
\* every earlier ingest, so the catalog holds as many records as there were
\* successful registrations.
C3_IdsNeverReused ==
    /\ \A e \in BagToSet(ingested) : CopiesIn(e, ingested) = 1
    /\ \A e1, e2 \in BagToSet(ingested) :
          e1 # e2 => e1.asset_id # e2.asset_id
    /\ Cardinality(data_assets) = CountCopies(ingested, OkEntries(ingested))

\* C4: the catalog holds at most one record per asset_id; a successful
\* register_asset leaves the asset's row in the table, keeps every row with
\* another id, and changes the number of rows by 0 when the id was present
\* and by 1 when it was new; a failed one changes nothing.
C4_PrimaryKeyUpsert ==
    [][/\ \A r1, r2 \in data_assets' : r1.asset_id = r2.asset_id => r1 = r2
       /\ \A p \in Procs :
            IngestReturns(p) =>
              LET row == Row(NewAsset(loc[p], now'))
                  present == SelectById(data_assets, row.asset_id) # {}
              IN  IF RegisteredNow
                  THEN /\ row \in data_assets'
                       /\ \A r \in data_assets :
                             r.asset_id # row.asset_id => r \in data_assets'
                       /\ Cardinality(data_assets') =
                             Cardinality(data_assets) + (IF present THEN 0 ELSE 1)
                  ELSE data_assets' = data_assets]_vars
\* an id was registered twice with success and has one row
C4_Witness ==
    \E e \in OkEntries(ingested) :
        /\ CountCopies(ingested,
                {x \in OkEntries(ingested) : x.asset_id = e.asset_id}) >= 2
        /\ Cardinality(SelectById(data_assets, e.asset_id)) = 1
        /\ Cardinality(data_assets) >= 2

\* C5 as stated: no two catalog records with different asset_ids have the
\* same path.
C5_PathsUnique ==
    \A r1, r2 \in data_assets :
        r1.asset_id # r2.asset_id => r1.path # r2.path
\* C5 as amended: every catalog record carries the path its ingest stored,
\* and two successful ingests with different asset_ids have the same path
\* only if they have the same dataset name, the same zone and stores within
\* the same second.
C5_SamePathOnlySameSecond ==
    /\ \A r \in data_assets :
          \E e \in OkEntries(ingested) :
              e.asset_id = r.asset_id /\ e.path = r.path
    /\ \A e1, e2 \in OkEntries(ingested) :
          (e1.asset_id # e2.asset_id /\ e1.path = e2.path)
          => (e1.name = e2.name /\ e1.zone = e2.zone /\ e1.second = e2.second)
\* two records with different ids share a path, and a third path exists
C5_Witness ==
    /\ \E r1, r2 \in data_assets :
          r1.asset_id # r2.asset_id /\ r1.path = r2.path
    /\ \E r1, r2 \in data_assets : r1.path # r2.path

\* C6: store_data with a zone that is not one of raw, bronze, silver, gold
\* fails with InvalidZone, ingest_data with such a zone fails with the same
\* error, and both leave directories, files and catalog as they were.
C6_InvalidZoneChangesNothing ==
    [][/\ \A p \in Procs, a \in StoreArgs :
            (StoreCall(p, a.data, a.zone, a.name, a.format)
               /\ a.zone \notin ZoneNames)
            => /\ ret' = [op |-> "store", status |-> "InvalidZone",
                          value |-> NoPath]
               /\ UNCHANGED StoreState
       /\ \A p \in Procs :
            (IngestStore(p) /\ loc[p].zone \notin ZoneNames)
            => /\ ret' = [op |-> loc[p].op, status |-> "InvalidZone",
                          value |-> <<>>]
               /\ pc'[p] = "idle"
               /\ UNCHANGED StoreState]_vars
\* an ingest into an invalid zone has failed after files were written
C6_Witness ==
    /\ ret.op = "ingest"
    /\ ret.status = "InvalidZone"
    /\ DOMAIN files # {}

\* C7: get_asset on an id returns the DataAsset last registered with success
\* under that id, equal in every field, and None for an id never registered.
C7_GetAfterRegister ==
    /\ \A id \in DOMAIN registered : get_asset(id) = {registered[id]}
    /\ \A id \in IdArgs \ DOMAIN registered : get_asset(id) = {}
\* get_asset returned an asset with duplicate tags and a fractional timestamp
C7_Witness ==
    /\ ret.op = "get_asset"
    /\ \E id \in DOMAIN registered :
          /\ ret.value = {registered[id]}
          /\ registered[id].tags = <<"b", "a", "a">>
          /\ registered[id].created_at.usec # 0
    /\ IdArgs \ DOMAIN registered # {}

\* C8: the lineage table is append-only, its ids strictly increase in
\* insertion order, a transform_data call that returns appends exactly one
\* edge from its source id to the id it returns, labelled with the
\* function's name (or custom_transform), and no other step adds an edge.
C8_LineageAppendOnly ==
    [][/\ Len(lineage') >= Len(lineage)
       /\ SubSeq(lineage', 1, Len(lineage)) = lineage
       /\ \A i, j \in DOMAIN lineage' :
            i < j => lineage'[i].id < lineage'[j].id
       /\ \A p \in Procs :
            (pc[p] = "t_lineage" /\ pc'[p] = "idle" /\ ret'.status = "ok")
            => /\ Len(lineage') = Len(lineage) + 1
               /\ LET e == lineage'[Len(lineage')]
                  IN  /\ e.source_asset_id = loc[p].source_asset_id
                      /\ e.target_asset_id = ret'.value
                      /\ e.transformation =
                            IF loc[p].fn.has_name THEN loc[p].fn.name
                            ELSE "custom_transform"
       /\ lineage' # lineage
            => \E p \in Procs : pc[p] = "t_lineage" /\ pc'[p] = "idle"]_vars
\* two transforms have returned, the second one last
C8_Witness ==
    /\ Len(lineage) = 2
    /\ ret.op = "transform"
    /\ ret.status = "ok"
    /\ lineage[2].target_asset_id = ret.value
    /\ lineage[1].transformation # lineage[2].transformation

\* C9: when an ingest registers its asset, the asset's checksum and
\* size_bytes are those of the file now at its path, and that file holds the
\* data this ingest wrote.
C9_RegisteredMatchesFile ==
    [][\A p \in Procs :
          IngestReturns(p) =>
            LET asset == NewAsset(loc[p], now')
            IN  /\ asset.path \in DOMAIN files
                /\ asset.checksum = md5(files[asset.path].bytes)
                /\ asset.size_bytes = SizeOf(files[asset.path].bytes)
                /\ files[asset.path].bytes = Encode(loc[p].data, "parquet")]_vars

\* C10: when ingest_data returns an asset_id, the catalog holds a record
\* under that id whose path is the file this ingest wrote.
C10_ReturnedIdIsRegistered ==
    [][\A p \in Procs :
          IngestReturns(p) =>
            \E r \in SelectById(data_assets', AssetId(loc[p].name, now')) :
                FromRow(r).path = loc[p].file_path]_vars

\* C11: a store_data call that fails with UnsupportedFormat (valid zone,
\* format none of parquet, csv, json) writes no file and leaves
\* list_datasets(zone) as it was before the call, for every zone.
C11_UnsupportedFormatChangesNothing ==
    [][\A p \in Procs, a \in StoreArgs :
          (StoreCall(p, a.data, a.zone, a.name, a.format)
             /\ ret'.status = "UnsupportedFormat")
          => /\ files' = files
             /\ \A z \in ZoneNames :
                   list_datasets_in(dirs', z) = list_datasets_in(dirs, z)]_vars

\* the catalog records ingested into zone z: those whose file lies under the
\* zone's directory
IngestedInto(z) == {row \in data_assets : row.path[2] = z}
\* the catalog records whose dataset name, or the base path, has z in it
NamedLike(z) ==
    {row \in data_assets : \/ Contains(Chars(z), Chars(row.name))
                           \/ Contains(Chars(z), Chars(base_path))}
RECURSIVE SumAssetCounts(_, _)
SumAssetCounts(summary, zs) ==
    IF zs = {} THEN 0
    ELSE LET z == CHOOSE x \in zs : TRUE
         IN  summary[z].asset_count + SumAssetCounts(summary, zs \ {z})
\* caller p takes the step that is a whole call of get_zone_summary
ZoneSummaryReturns(p) == ret'.op = "zone_summary" /\ ZoneSummaryCall(p)

\* C12 (as stated): get_zone_summary counts every catalog record in exactly
\* one zone, the zone it was ingested into, whatever the dataset names:
\* asset_count of z is the number of records ingested into z, and the four
\* asset_counts sum to the number of catalog records.
C12_EachRecordInItsZone ==
    [][\A p \in Procs :
          ZoneSummaryReturns(p)
          => /\ \A z \in ZoneNames :
                   ret'.value[z].asset_count = Cardinality(IngestedInto(z))
             /\ SumAssetCounts(ret'.value, ZoneNames)
                   = Cardinality(data_assets)]_vars

\* C12 (amended): get_zone_summary counts a catalog record in the zone it was
\* ingested into and also in every zone whose name occurs in the record's
\* dataset name or in the base path: asset_count of z is the number of
\* records that were ingested into z or are named like z.  Where no record
\* is named like a zone, asset_count of z is the number of records ingested
\* into z and the four asset_counts sum to the number of catalog records.
C12_CountsByPathSubstring ==
    [][\A p \in Procs :
          ZoneSummaryReturns(p)
          => /\ \A z \in ZoneNames :
                   ret'.value[z].asset_count
                       = Cardinality(IngestedInto(z) \cup NamedLike(z))
             /\ (\A z \in ZoneNames : NamedLike(z) = {})
                   => /\ \A z \in ZoneNames :
                            ret'.value[z].asset_count
                                = Cardinality(IngestedInto(z))
                      /\ SumAssetCounts(ret'.value, ZoneNames)
                            = Cardinality(data_assets)]_vars
\* get_zone_summary has returned with "t1" in raw and "raw_x" in silver both
\* in the catalog: raw counts two assets, silver one
C12_Witness ==
    /\ ret.op = "zone_summary"
    /\ ret.value = get_zone_summary
    /\ \E r1, r2 \in data_assets :
          /\ r1.name = "t1" /\ r1.path[2] = "raw"
          /\ r2.name = "raw_x" /\ r2.path[2] = "silver"
    /\ ret.value["raw"].asset_count = 2
    /\ ret.value["silver"].asset_count = 1

====
